---- MODULE Spec2Model ----
(***************************************************************************)
(* A model of the RAG chatbot: the token-window chunker, the separator     *)
(* chunker, the ingestion run and the two /api/chat handlers.              *)
(*                                                                         *)
(* A text is a sequence of one-character strings.  A token is a string of  *)
(* the tokenizer's vocabulary.                                             *)
(***************************************************************************)
EXTENDS Integers, Sequences, FiniteSets, TLC

\* ------------------------------------------------------------------ bounds
MaxTextLen == 7
MaxChunkTokens == 3
MaxOverlap == 3
\* The loop of split_text_into_chunks is followed for at most this many
\* iterations; a call with overlap_tokens < max_tokens_per_chunk never needs
\* more than MaxTextLen of them.
MaxIterations == MaxTextLen + 2
\* split_text_by_separator is called on texts of at most this many characters.
MaxSepTextLen == 7
\* The vector store answers a query with at most this many matches.
MaxDocs == 2
\* ingest_text is called on texts of at most MaxIngestLen characters, with a
\* chunk size of at most MaxIngestChunk tokens and, when it is called
\* directly, batches of at most MaxBatch chunks.
MaxIngestLen == 4
MaxIngestChunk == 2
MaxBatch == 2

VARIABLES
    \* split_text_into_chunks
    text, max_tokens_per_chunk, overlap_tokens, tokens, current_pos, chunks,
    windows, pc,
    \* split_text_by_separator
    sep_text, separator, parts, part_no, current_chunk, sep_chunks, sep_pc,
    sep_error,
    \* POST /api/chat: the request, the services behind it, each handler's run
    body, services, flask, fastapi,
    \* ingest_text, called by main or directly: the arguments, the locals, the
    \* index's content, the count returned (and logged by main), the service
    \* call that failed, the index's content when the run began, the run
    \* before this one, the calls the run made to the embedding service and to
    \* the index, in order, whether the index exists, and the caller
    args, ing_chunks, i, embeddings, vectors, store, ing_pc, ing_error,
    reported, fault, run_start, previous, ing_calls, index_exists, entry

chunkerVars == <<text, max_tokens_per_chunk, overlap_tokens, tokens,
                 current_pos, chunks, windows, pc>>

sepVars == <<sep_text, separator, parts, part_no, current_chunk, sep_chunks,
             sep_pc, sep_error>>

chatVars == <<body, services, flask, fastapi>>

ingestVars == <<args, ing_chunks, i, embeddings, vectors, store, ing_pc,
                ing_error, reported, fault, run_start, previous, ing_calls,
                index_exists, entry>>

vars == <<chunkerVars, sepVars, chatVars, ingestVars>>

\* --------------------------------------------------------------- utilities
Min(a, b) == IF a <= b THEN a ELSE b

Max(a, b) == IF a >= b THEN a ELSE b

\* The texts of at most n characters over the alphabet A.
TextsUpTo(A, n) == UNION {[1..k -> A] : k \in 0..n}

\* Python's s[lo:hi]: a negative index counts from the end, and both ends are
\* clamped to 0..len(s).
PyIndex(k, n) == IF k < 0 THEN Max(k + n, 0) ELSE Min(k, n)

Slice(s, lo, hi) ==
    LET a == PyIndex(lo, Len(s))
        b == PyIndex(hi, Len(s))
    IN  IF a >= b THEN <<>> ELSE SubSeq(s, a + 1, b)

\* --------------------------------------------------------------- tokenizer
\* tiktoken's byte-pair encoding, with a vocabulary of the single characters
\* and two merged tokens: "ab" and the paragraph break "\n\n".  encode merges
\* the leftmost pairs first; decode concatenates the tokens' characters.
RECURSIVE Encode(_)
Encode(t) ==
    IF Len(t) = 0 THEN <<>>
    ELSE IF Len(t) >= 2 /\ t[1] = "a" /\ t[2] = "b"
         THEN <<"ab">> \o Encode(SubSeq(t, 3, Len(t)))
    ELSE IF Len(t) >= 2 /\ t[1] = "\n" /\ t[2] = "\n"
         THEN <<"\n\n">> \o Encode(SubSeq(t, 3, Len(t)))
    ELSE <<t[1]>> \o Encode(Tail(t))

TokenText(tok) ==
    CASE tok = "ab" -> <<"a", "b">>
      [] tok = "\n\n" -> <<"\n", "\n">>
      [] OTHER -> <<tok>>

RECURSIVE Decode(_)
Decode(toks) ==
    IF Len(toks) = 0 THEN <<>>
    ELSE TokenText(toks[1]) \o Decode(Tail(toks))

count_tokens(t) == Len(Encode(t))

\* ------------------------------------------------- split_text_into_chunks
\* A window that stops one token early.
EndPosOffByOne(cp, m, n) == Min(cp + m - 1, n)

\* end_pos = min(current_pos + max_tokens_per_chunk, len(tokens))
EndPos(cp, m, n) == Min(cp + m, n)

\* The step of a call that forgets the overlap.
NextPosNoOverlap(cp, m, o) == cp + m

\* current_pos += (max_tokens_per_chunk - overlap_tokens)
NextPos(cp, m, o) == cp + (m - o)

ChunkerInit ==
    /\ text \in TextsUpTo({"a", "b"}, MaxTextLen)
    /\ max_tokens_per_chunk \in 1..MaxChunkTokens
    /\ overlap_tokens \in 0..MaxOverlap
    /\ tokens = Encode(text)
    /\ current_pos = 0
    /\ chunks = <<>>
    /\ windows = <<>>
    /\ pc = "loop"

\* One iteration of the while loop: the window is cut, decoded and appended;
\* the loop is left when the window reached the end of the tokens or the
\* advanced cursor did.
ChunkIterate ==
    /\ pc = "loop"
    /\ current_pos < Len(tokens)
    /\ Len(chunks) < MaxIterations
    /\ LET end_pos == EndPos(current_pos, max_tokens_per_chunk, Len(tokens))
           chunk_tokens == Slice(tokens, current_pos, end_pos)
           next_pos == NextPos(current_pos, max_tokens_per_chunk, overlap_tokens)
       IN  /\ chunks' = Append(chunks, Decode(chunk_tokens))
           /\ windows' = Append(windows, [start |-> current_pos,
                                          end |-> end_pos,
                                          toks |-> chunk_tokens])
           /\ IF end_pos = Len(tokens)
              THEN pc' = "done" /\ current_pos' = current_pos
              ELSE /\ current_pos' = next_pos
                   /\ pc' = IF next_pos >= Len(tokens) THEN "done" ELSE "loop"
    /\ UNCHANGED <<text, max_tokens_per_chunk, overlap_tokens, tokens>>
    /\ UNCHANGED <<sepVars, chatVars, ingestVars>>

\* The while condition is false: return chunks.
ChunkReturn ==
    /\ pc = "loop"
    /\ current_pos >= Len(tokens)
    /\ pc' = "done"
    /\ UNCHANGED <<text, max_tokens_per_chunk, overlap_tokens, tokens,
                   current_pos, chunks, windows>>
    /\ UNCHANGED <<sepVars, chatVars, ingestVars>>

\* The whole call as a function of its arguments, for the callers that use
\* its result.  WindowsFrom is the loop from cursor cp on over n tokens: the
\* <<current_pos, end_pos>> of each iteration.  Defined for the arguments the
\* loop ends on.
RECURSIVE WindowsFrom(_, _, _, _)
WindowsFrom(n, m, o, cp) ==
    IF cp >= n THEN <<>>
    ELSE LET end_pos == EndPos(cp, m, n)
         IN  IF end_pos = n THEN <<(<<cp, end_pos>>)>>
             ELSE <<(<<cp, end_pos>>)>> \o WindowsFrom(n, m, o, NextPos(cp, m, o))

split_text_into_chunks(t, m, o) ==
    LET toks == Encode(t)
        ws == WindowsFrom(Len(toks), m, o, 0)
    IN  [k \in 1..Len(ws) |-> Decode(Slice(toks, ws[k][1], ws[k][2]))]

\* ------------------------------------------------ split_text_by_separator
SepAlphabet == {"a", "b", "c", "\n"}

\* str.isspace of one character: the space, \t, \n, \r, \f, and, written as
\* the characters themselves, \v, \x1c to \x1f, \x85, \xa0 and U+1680.  The
\* rest of Python's whitespace (U+2000 to U+200A, U+2028, U+2029, U+202F,
\* U+205F, U+3000) is not accepted in a string of a module.
IsSpace(c) ==
    c \in {" ", "\t", "\n", "\r", "\f",
           "", "", "", "", "", "", " ", " "}

\* str.strip(): the text without its leading and trailing whitespace.
RECURSIVE LStrip(_)
LStrip(t) ==
    IF Len(t) > 0 /\ IsSpace(t[1]) THEN LStrip(Tail(t)) ELSE t

RECURSIVE RStrip(_)
RStrip(t) ==
    IF Len(t) > 0 /\ IsSpace(t[Len(t)])
    THEN RStrip(SubSeq(t, 1, Len(t) - 1))
    ELSE t

Strip(t) == RStrip(LStrip(t))

\* Whether sep occurs in t at index k (from 1).
OccursAt(t, sep, k) ==
    /\ k + Len(sep) - 1 <= Len(t)
    /\ SubSeq(t, k, k + Len(sep) - 1) = sep

\* str.split(sep) for a non-empty sep: cut at the occurrences of sep, found
\* from the left and not overlapping; the pieces may be empty.
RECURSIVE Split(_, _)
Split(t, sep) ==
    LET hits == {k \in 1..Len(t) : OccursAt(t, sep, k)}
    IN  IF hits = {} THEN <<t>>
        ELSE LET k == CHOOSE h \in hits : \A g \in hits : h <= g
             IN  <<SubSeq(t, 1, k - 1)>>
                    \o Split(SubSeq(t, k + Len(sep), Len(t)), sep)

\* The names line 99 can resolve: the function's parameters and locals, and
\* the module's globals.  max_tokens_per_chunk is none of them.
NamesInScope ==
    {"text", "separator", "min_length", "parts", "chunks", "current_chunk",
     "part", "tiktoken", "logging", "logger", "get_tokenizer", "count_tokens",
     "split_text_into_chunks", "split_text_by_separator"}

\* The test of line 99, current_chunk and count_tokens(current_chunk +
\* separator + part) > max_tokens_per_chunk: false for an empty current_chunk
\* (the right operand is not evaluated); otherwise count_tokens is called and
\* the right-hand side is looked up, which raises NameError for a name out of
\* scope.
TooLongTest(cur, sep, part) ==
    IF cur = <<>> THEN "false"
    ELSE IF "max_tokens_per_chunk" \notin NamesInScope THEN "NameError"
    ELSE "true"

SepInit ==
    /\ sep_text \in TextsUpTo(SepAlphabet, MaxSepTextLen)
    /\ separator = <<"\n", "\n">>
    /\ parts = Split(sep_text, separator)
    /\ part_no = 1
    /\ current_chunk = <<>>
    /\ sep_chunks = <<>>
    /\ sep_pc = "loop"
    /\ sep_error = "none"

\* One iteration of "for part in parts".
SepPart ==
    /\ sep_pc = "loop"
    /\ part_no <= Len(parts)
    /\ LET part == Strip(parts[part_no])
           test == TooLongTest(current_chunk, separator, part)
       IN  IF part = <<>>
           THEN \* continue
                /\ part_no' = part_no + 1
                /\ UNCHANGED <<current_chunk, sep_chunks, sep_pc, sep_error>>
           ELSE IF test = "NameError"
           THEN \* the exception leaves the function
                /\ sep_pc' = "raised"
                /\ sep_error' = "NameError"
                /\ UNCHANGED <<part_no, current_chunk, sep_chunks>>
           ELSE IF test = "true"
           THEN /\ sep_chunks' = Append(sep_chunks, current_chunk)
                /\ current_chunk' = part
                /\ part_no' = part_no + 1
                /\ UNCHANGED <<sep_pc, sep_error>>
           ELSE /\ current_chunk' =
                      (IF current_chunk # <<>> THEN current_chunk \o separator
                                               ELSE current_chunk) \o part
                /\ part_no' = part_no + 1
                /\ UNCHANGED <<sep_chunks, sep_pc, sep_error>>
    /\ UNCHANGED <<sep_text, separator, parts>>
    /\ UNCHANGED <<chunkerVars, chatVars, ingestVars>>

\* After the loop: the last chunk is added if it is not empty; return chunks.
SepReturn ==
    /\ sep_pc = "loop"
    /\ part_no > Len(parts)
    /\ sep_chunks' = IF current_chunk # <<>> THEN Append(sep_chunks, current_chunk)
                                             ELSE sep_chunks
    /\ sep_pc' = "returned"
    /\ UNCHANGED <<sep_text, separator, parts, part_no, current_chunk, sep_error>>
    /\ UNCHANGED <<chunkerVars, chatVars, ingestVars>>

\* ------------------------------------------------------ external services
\* A dict is a function from its keys; EmptyDict is {}.
EmptyDict == <<>>

\* dict.get(key, default)
DictGet(d, key, default) == IF key \in DOMAIN d THEN d[key] ELSE default

\* The embedding the service gives a text: the same vector for the same text.
Embed(t) == <<"embedding", t>>

\* An embedding call whose failure is swallowed: it returns an empty list.
GetEmbeddingsSwallowing(texts, ok) ==
    [raised |-> FALSE, error |-> "none",
     value |-> IF ok THEN [k \in 1..Len(texts) |-> Embed(texts[k])] ELSE <<>>]

\* get_embeddings(texts), the service answering (ok) or failing: no call for
\* an empty list; a failure is logged and raised again.
get_embeddings(texts, ok) ==
    IF Len(texts) = 0 THEN [raised |-> FALSE, error |-> "none", value |-> <<>>]
    ELSE IF ok THEN [raised |-> FALSE, error |-> "none",
                     value |-> [k \in 1..Len(texts) |-> Embed(texts[k])]]
    ELSE [raised |-> TRUE, error |-> "EmbeddingError", value |-> <<>>]

\* "\n\n---\n\n".join(context)
RECURSIVE JoinContext(_)
JoinContext(context) ==
    IF Len(context) = 0 THEN <<>>
    ELSE IF Len(context) = 1 THEN <<context[1]>>
    ELSE <<context[1], "\n\n---\n\n">> \o JoinContext(Tail(context))

\* The answer of the chat model, at temperature 0, to a query under the
\* system prompt built from the context.
Completion(query, context_str) == <<"completion", query, context_str>>

\* get_chat_completion(query, context): a failure is logged and raised again.
get_chat_completion(query, context, ok) ==
    IF ok THEN [raised |-> FALSE, error |-> "none",
                value |-> Completion(query, JoinContext(context))]
    ELSE [raised |-> TRUE, error |-> "CompletionError", value |-> "None"]

\* get_index(): the index, or None when pc.Index raises.
get_index(srv) == IF srv.index_ok THEN "index" ELSE "None"

\* get_similar_documents(query_embedding, top_k): [] without an index, the
\* matches of the query, and [] again when the query raises.
get_similar_documents(query_embedding, srv) ==
    IF get_index(srv) = "None" THEN <<>>
    ELSE IF srv.query_ok THEN srv.matches
    ELSE <<>>

\* ------------------------------------------------------- POST /api/chat
\* top_k of the handlers' get_similar_documents call.
TopK == 5

Questions == {"", "q1", "q2"}

\* The request bodies: none, and the JSON objects {}, {"other": "x"} and
\* {"question": q}.
Bodies ==
    {[kind |-> "none", json |-> EmptyDict],
     [kind |-> "json", json |-> EmptyDict],
     [kind |-> "json", json |-> [k \in {"other"} |-> "x"]]}
    \cup {[kind |-> "json", json |-> [k \in {"question"} |-> q]] : q \in Questions}

\* The matches a query may return: metadata with a text, or without one.
Documents ==
    {[metadata |-> [k \in {"text"} |-> t]] : t \in {"t1", "t2"}}
    \cup {[metadata |-> [k \in {"chunk_id"} |-> 0]]}

\* The state of the services during one request: whether the embedding, the
\* index look-up, the query and the chat completion succeed, and the matches
\* the index holds for the query.
ServiceStates ==
    [embed_ok : BOOLEAN, index_ok : BOOLEAN, query_ok : BOOLEAN,
     chat_ok : BOOLEAN,
     matches : UNION {[1..k -> Documents] : k \in 0..Min(MaxDocs, TopK)}]

\* A handler that has not run: no response, no call made, similar_docs unset.
NotRun == [done |-> FALSE, resp |-> "none", calls |-> <<>>, similar_docs |-> "unset"]

FallbackAnswer == "I couldn't find any relevant information to answer your question."

\* The responses: 200 with the answer, Flask's (error body, status), FastAPI's
\* HTTPException(status, detail).
AnswerResponse(answer, context) ==
    [status |-> 200, answer |-> answer, retrieved_context |-> context]

FlaskErrorResponse(status, message) == [status |-> status, error |-> message]

HttpException(status, detail) == [status |-> status, detail |-> detail]

Finished(resp, calls, docs) ==
    [done |-> TRUE, resp |-> resp, calls |-> calls, similar_docs |-> docs]

\* A test that never takes the no-documents branch.
NoDocumentsNever(similar_docs) == FALSE

\* not similar_docs
NoDocuments(similar_docs) == Len(similar_docs) = 0

\* request.get_json(): the parsed body; without a JSON body None (silent) or
\* an HTTP exception, by the request's content type and the Flask version.
GetJsonOutcomes(b) ==
    IF b.kind = "json" THEN {[raised |-> FALSE, is_none |-> FALSE, data |-> b.json]}
    ELSE {[raised |-> FALSE, is_none |-> TRUE, data |-> EmptyDict],
          [raised |-> TRUE, is_none |-> TRUE, data |-> EmptyDict]}

\* not data or 'question' not in data
FlaskMissingQuestion(got) ==
    got.is_none \/ got.data = EmptyDict \/ "question" \notin DOMAIN got.data

\* The Flask handler on what get_json gave: the run it ends with.
FlaskHandle(got, srv) ==
    IF got.raised
    THEN Finished(FlaskErrorResponse(500, "An error occurred: BadRequest"), <<>>, "unset")
    ELSE IF FlaskMissingQuestion(got)
    THEN Finished(FlaskErrorResponse(400, "Missing question in request"), <<>>, "unset")
    ELSE
    LET question == got.data["question"]
        embedded == get_embeddings(<<question>>, srv.embed_ok)
    IN  IF embedded.raised
        THEN Finished(FlaskErrorResponse(500, "An error occurred: " \o embedded.error),
                      <<"get_embeddings">>, "unset")
        ELSE
        LET similar_docs == get_similar_documents(embedded.value[1], srv)
            calls2 == <<"get_embeddings", "get_similar_documents">>
        IN  IF NoDocuments(similar_docs)
            THEN Finished(AnswerResponse(FallbackAnswer, <<>>), calls2, similar_docs)
            ELSE
            LET context_texts == [k \in 1..Len(similar_docs) |->
                                     DictGet(similar_docs[k].metadata, "text", "")]
                answer == get_chat_completion(question, context_texts, srv.chat_ok)
                calls3 == Append(calls2, "get_chat_completion")
            IN  IF answer.raised
                THEN Finished(FlaskErrorResponse(500, "An error occurred: " \o answer.error),
                              calls3, similar_docs)
                ELSE Finished(AnswerResponse(answer.value, context_texts),
                              calls3, similar_docs)

\* The request model ChatQuery (dto/query_dto.py) in front of the FastAPI
\* handler: the body must carry a non-empty question.
ChatQueryValid(b) ==
    b.kind = "json" /\ "question" \in DOMAIN b.json /\ b.json["question"] # ""

\* The answer to a body ChatQuery rejects.
ChatQueryRejected(b) ==
    Finished([status |-> 400, error |-> "Missing question in request"], <<>>, "unset")

\* The FastAPI handler on a validated query.
FastapiHandle(question, srv) ==
    LET embedded == get_embeddings(<<question>>, srv.embed_ok)
    IN  IF embedded.raised
        THEN Finished(HttpException(500, "An error occurred: " \o embedded.error),
                      <<"get_embeddings">>, "unset")
        ELSE
        LET similar_docs == get_similar_documents(embedded.value[1], srv)
            calls2 == <<"get_embeddings", "get_similar_documents">>
        IN  IF NoDocuments(similar_docs)
            THEN Finished(AnswerResponse(FallbackAnswer, <<>>), calls2, similar_docs)
            ELSE IF \E k \in 1..Len(similar_docs) :
                        "text" \notin DOMAIN similar_docs[k].metadata
            THEN \* doc['metadata']['text'] raises KeyError
                 Finished(HttpException(500, "An error occurred: 'text'"),
                          calls2, similar_docs)
            ELSE
            LET context_texts == [k \in 1..Len(similar_docs) |->
                                     similar_docs[k].metadata["text"]]
                answer == get_chat_completion(question, context_texts, srv.chat_ok)
                calls3 == Append(calls2, "get_chat_completion")
            IN  IF answer.raised
                THEN Finished(HttpException(500, "An error occurred: " \o answer.error),
                              calls3, similar_docs)
                ELSE Finished(AnswerResponse(answer.value, context_texts),
                              calls3, similar_docs)

ChatInit ==
    /\ body \in Bodies
    /\ services \in ServiceStates
    /\ flask = NotRun
    /\ fastapi = NotRun

\* The Flask application answers the request.
FlaskChat ==
    /\ ~flask.done
    /\ \E got \in GetJsonOutcomes(body) : flask' = FlaskHandle(got, services)
    /\ UNCHANGED <<body, services, fastapi>>
    /\ UNCHANGED <<chunkerVars, sepVars, ingestVars>>

\* The FastAPI application answers the same request.
FastapiChat ==
    /\ ~fastapi.done
    /\ fastapi' = IF ChatQueryValid(body)
                  THEN FastapiHandle(body.json["question"], services)
                  ELSE ChatQueryRejected(body)
    /\ UNCHANGED <<body, services, flask>>
    /\ UNCHANGED <<chunkerVars, sepVars, ingestVars>>

\* ------------------------------------------------------------ ingest_text
\* The vector store: a function from the ids it holds to their records.
EmptyStore == <<>>

\* An id that counts on from the vectors the index already holds.
VectorIdAfterStored(k) == "chunk_" \o ToString(k + Cardinality(DOMAIN store))

\* f"chunk_{i+j}"
VectorId(k) == "chunk_" \o ToString(k)

\* The vector of chunk j (from 0) of the batch that starts at chunk i.
BatchVector(batch_chunks, embs, at, j) ==
    [id |-> VectorId(at + j),
     values |-> embs[j + 1],
     metadata |-> [text |-> batch_chunks[j + 1], chunk_id |-> at + j]]

\* delete_index(): the index, when there is one, is deleted with all it
\* holds; when list_indexes or the deletion raises, the error is logged and
\* the index is as it was.  The result: whether the index exists, and what it
\* holds.
delete_index(exists, st, ok) ==
    IF exists /\ ok THEN [exists |-> FALSE, store |-> EmptyStore]
    ELSE [exists |-> exists, store |-> st]

\* index.upsert(vectors=batch_vectors): each vector is written under its id,
\* over what the id held.
Upsert(st, batch_vectors) ==
    LET ids == {batch_vectors[k].id : k \in 1..Len(batch_vectors)}
        last(id) == CHOOSE k \in 1..Len(batch_vectors) :
                        /\ batch_vectors[k].id = id
                        /\ \A g \in 1..Len(batch_vectors) :
                              batch_vectors[g].id = id => g <= k
    IN  [id \in DOMAIN st \cup ids |->
            IF id \in ids
            THEN [values |-> batch_vectors[last(id)].values,
                  metadata |-> batch_vectors[last(id)].metadata]
            ELSE st[id]]

\* The arguments of a call ingest_text(text, chunk_size, overlap, batch_size).
\* The overlap is below the chunk size: split_text_into_chunks returns.
IngestArguments ==
    {a \in [text : TextsUpTo({"a", "b"}, MaxIngestLen),
            chunk_size : 1..MaxIngestChunk,
            overlap : 0..(MaxIngestChunk - 1),
            batch_size : 1..MaxBatch] : a.overlap < a.chunk_size}

\* def ingest_text(..., batch_size=10): main passes no batch size.
DefaultBatchSize == 10

\* The arguments of the call ingest_text(text, args.chunk_size, args.overlap)
\* that main makes, before the text is read.
MainArguments ==
    {a \in [text : {<<>>},
            chunk_size : 1..MaxIngestChunk,
            overlap : 0..(MaxIngestChunk - 1),
            batch_size : {DefaultBatchSize}] : a.overlap < a.chunk_size}

NoFault == [call |-> "none", at |-> 0]

\* A step of the batch loop that moves on by one chunk only.
NextBatchByOne(at, b) == at + 1

\* range(0, len(chunks), batch_size): the start of the batch after the one
\* that starts at chunk at.
NextBatch(at, b) == at + b

\* A call the run made: get_embeddings(batch_chunks) or
\* index.upsert(vectors=batch_vectors) of the batch starting at chunk at,
\* with its argument and whether the service answered.
Call(name, at, arg, ok) == [call |-> name, at |-> at, arg |-> arg, ok |-> ok]

NoRun == [ran |-> FALSE, ok |-> FALSE, args |-> "none", store |-> EmptyStore]

\* Before any index was created, either main is called with its flags (the
\* text is read later, from the file), or ingest_text is called directly
\* with a text and a batch size.
IngestInit ==
    /\ \/ /\ entry = "main"
          /\ args \in MainArguments
          /\ ing_pc = "main"
       \/ /\ entry = "ingest_text"
          /\ args \in IngestArguments
          /\ ing_pc = "split"
    /\ ing_chunks = <<>>
    /\ i = 0
    /\ embeddings = <<>>
    /\ vectors = <<>>
    /\ store = EmptyStore
    /\ ing_error = "none"
    /\ reported = <<>>
    /\ fault = NoFault
    /\ run_start = EmptyStore
    /\ previous = NoRun
    /\ ing_calls = <<>>
    /\ index_exists = FALSE

\* main up to read_file: a file that does not exist is logged and main
\* returns; under --reset delete_index() runs and main waits.
IngestMain ==
    /\ ing_pc = "main"
    /\ \E found \in BOOLEAN, reset \in BOOLEAN, deleted \in BOOLEAN :
          IF ~found
          THEN /\ ing_pc' = "failed"
               /\ ing_error' = "FileNotFound"
               /\ UNCHANGED <<store, index_exists, run_start>>
          ELSE LET after == IF reset
                            THEN delete_index(index_exists, store, deleted)
                            ELSE [exists |-> index_exists, store |-> store]
               IN  /\ ing_pc' = "read"
                   /\ store' = after.store
                   /\ index_exists' = after.exists
                   /\ run_start' = after.store
                   /\ UNCHANGED ing_error
    /\ UNCHANGED <<args, ing_chunks, i, embeddings, vectors, reported, fault,
                   previous, ing_calls>>
    /\ UNCHANGED entry
    /\ UNCHANGED <<chunkerVars, sepVars, chatVars>>

\* read_file(args.file): the file's text, or the exception of open or of the
\* decoding, which is logged, raised again and logged by main; then
\* ingest_text is entered with the text.
IngestReadFile ==
    /\ ing_pc = "read"
    /\ \/ /\ \E t \in TextsUpTo({"a", "b"}, MaxIngestLen) :
                args' = [args EXCEPT !.text = t]
          /\ ing_pc' = "split"
          /\ UNCHANGED ing_error
       \/ /\ ing_pc' = "failed"
          /\ ing_error' = "ReadError"
          /\ UNCHANGED args
    /\ UNCHANGED <<ing_chunks, i, embeddings, vectors, store, reported, fault,
                   run_start, previous, ing_calls, index_exists>>
    /\ UNCHANGED entry
    /\ UNCHANGED <<chunkerVars, sepVars, chatVars>>

\* 1. Split text into chunks.
IngestSplit ==
    /\ ing_pc = "split"
    /\ ing_chunks' = split_text_into_chunks(args.text, args.chunk_size, args.overlap)
    /\ ing_pc' = "init_pinecone"
    /\ UNCHANGED <<args, i, embeddings, vectors, store, ing_error, reported,
                   fault, run_start, previous, ing_calls, index_exists>>
    /\ UNCHANGED entry
    /\ UNCHANGED <<chunkerVars, sepVars, chatVars>>

\* 2. init_pinecone(), up to its wait: list_indexes, and create_index when
\* the index is not listed.  The exception of either leaves ingest_text.
IngestInitPinecone ==
    /\ ing_pc = "init_pinecone"
    /\ \E ok \in BOOLEAN :
          IF ok
          THEN /\ ing_pc' = "pinecone_index"
               /\ index_exists' = TRUE
               /\ UNCHANGED <<ing_error, fault>>
          ELSE /\ ing_pc' = "failed"
               /\ ing_error' = "PineconeError"
               /\ fault' = [call |-> "init_pinecone", at |-> 0]
               /\ UNCHANGED index_exists
    /\ UNCHANGED <<args, ing_chunks, i, embeddings, vectors, store, reported,
                   run_start, previous, ing_calls>>
    /\ UNCHANGED entry
    /\ UNCHANGED <<chunkerVars, sepVars, chatVars>>

\* The rest of init_pinecone(): pc.Index(PINECONE_INDEX_NAME), the index or
\* the client's exception; then 3. vectors = [] and the loop begins.
IngestPineconeIndex ==
    /\ ing_pc = "pinecone_index"
    /\ \E ok \in BOOLEAN :
          IF ok
          THEN /\ ing_pc' = "embed"
               /\ i' = 0
               /\ vectors' = <<>>
               /\ UNCHANGED <<ing_error, fault>>
          ELSE /\ ing_pc' = "failed"
               /\ ing_error' = "PineconeError"
               /\ fault' = [call |-> "init_pinecone", at |-> 0]
               /\ UNCHANGED <<i, vectors>>
    /\ UNCHANGED <<args, ing_chunks, embeddings, store, reported, run_start,
                   previous, ing_calls, index_exists>>
    /\ UNCHANGED entry
    /\ UNCHANGED <<chunkerVars, sepVars, chatVars>>

\* The head of "for i in range(0, len(chunks), batch_size)" and the batch's
\* get_embeddings(batch_chunks) call, the service answering or failing.
IngestEmbed ==
    /\ ing_pc = "embed"
    /\ i < Len(ing_chunks)
    /\ \E ok \in BOOLEAN :
          LET batch_chunks == Slice(ing_chunks, i, i + args.batch_size)
              got == get_embeddings(batch_chunks, ok)
          IN  /\ fault' = IF ok THEN fault ELSE [call |-> "get_embeddings", at |-> i]
              /\ ing_calls' = Append(ing_calls, Call("get_embeddings", i, batch_chunks, ok))
              /\ IF got.raised
                 THEN /\ ing_pc' = "failed"
                      /\ ing_error' = got.error
                      /\ UNCHANGED embeddings
                 ELSE /\ ing_pc' = "upsert"
                      /\ embeddings' = got.value
                      /\ UNCHANGED ing_error
    /\ UNCHANGED <<args, ing_chunks, i, vectors, store, reported, run_start,
                   previous, index_exists>>
    /\ UNCHANGED entry
    /\ UNCHANGED <<chunkerVars, sepVars, chatVars>>

\* The rest of the loop body: the batch's vectors are built and added to
\* vectors, and upserted, the index taking the batch or failing.  Building
\* them raises IndexError when an embedding is missing.
IngestUpsert ==
    /\ ing_pc = "upsert"
    /\ LET batch_chunks == Slice(ing_chunks, i, i + args.batch_size)
       IN  IF Len(embeddings) < Len(batch_chunks)
           THEN /\ ing_pc' = "failed"
                /\ ing_error' = "IndexError"
                /\ UNCHANGED <<i, vectors, store, fault, ing_calls>>
           ELSE
           LET batch_vectors == [k \in 1..Len(batch_chunks) |->
                                    BatchVector(batch_chunks, embeddings, i, k - 1)]
           IN  /\ vectors' = vectors \o batch_vectors
               /\ \E ok \in BOOLEAN :
                     /\ ing_calls' = Append(ing_calls, Call("upsert", i, batch_vectors, ok))
                     /\ IF ok
                        THEN /\ store' = Upsert(store, batch_vectors)
                             /\ i' = NextBatch(i, args.batch_size)
                             /\ ing_pc' = "embed"
                             /\ UNCHANGED <<ing_error, fault>>
                        ELSE /\ ing_pc' = "failed"
                             /\ ing_error' = "UpsertError"
                             /\ fault' = [call |-> "upsert", at |-> i]
                             /\ UNCHANGED <<store, i>>
    /\ UNCHANGED <<args, ing_chunks, embeddings, reported, run_start, previous,
                   index_exists>>
    /\ UNCHANGED entry
    /\ UNCHANGED <<chunkerVars, sepVars, chatVars>>

\* The loop is over: ingest_text returns len(vectors) and main logs the count.
IngestReturn ==
    /\ ing_pc = "embed"
    /\ i >= Len(ing_chunks)
    /\ ing_pc' = "done"
    /\ reported' = <<Len(vectors)>>
    /\ UNCHANGED <<args, ing_chunks, i, embeddings, vectors, store, ing_error,
                   fault, run_start, previous, ing_calls, index_exists>>
    /\ UNCHANGED entry
    /\ UNCHANGED <<chunkerVars, sepVars, chatVars>>

\* The caller of the first run runs once more on the index as the first run
\* left it: main with the same chunk size and overlap, or ingest_text with
\* the same chunk_size, overlap and batch_size on the same text or another.
IngestAgain ==
    /\ ing_pc \in {"done", "failed"}
    /\ ~previous.ran
    /\ previous' = [ran |-> TRUE, ok |-> ing_pc = "done", args |-> args,
                    store |-> store]
    /\ IF entry = "main"
       THEN /\ args' = [args EXCEPT !.text = <<>>]
            /\ ing_pc' = "main"
       ELSE /\ \E t \in TextsUpTo({"a", "b"}, MaxIngestLen) :
                  args' = [args EXCEPT !.text = t]
            /\ ing_pc' = "split"
    /\ ing_chunks' = <<>>
    /\ i' = 0
    /\ embeddings' = <<>>
    /\ vectors' = <<>>
    /\ ing_error' = "none"
    /\ reported' = <<>>
    /\ fault' = NoFault
    /\ run_start' = store
    /\ ing_calls' = <<>>
    /\ UNCHANGED <<store, index_exists>>
    /\ UNCHANGED entry
    /\ UNCHANGED <<chunkerVars, sepVars, chatVars>>


\* ---------------------------------------------------------- specifications
\* No call of split_text_into_chunks is under way.
ChunkerIdle ==
    /\ text = <<>>
    /\ max_tokens_per_chunk = 0
    /\ overlap_tokens = 0
    /\ tokens = <<>>
    /\ current_pos = 0
    /\ chunks = <<>>
    /\ windows = <<>>
    /\ pc = "idle"

\* No call of split_text_by_separator is under way.
SepIdle ==
    /\ sep_text = <<>>
    /\ separator = <<>>
    /\ parts = <<>>
    /\ part_no = 0
    /\ current_chunk = <<>>
    /\ sep_chunks = <<>>
    /\ sep_pc = "idle"
    /\ sep_error = "none"

\* No chat request is under way.
ChatIdle ==
    /\ body = [kind |-> "none", json |-> EmptyDict]
    /\ services = "none"
    /\ flask = NotRun
    /\ fastapi = NotRun

\* No ingestion is under way.
IngestIdle ==
    /\ args = "none"
    /\ ing_chunks = <<>>
    /\ i = 0
    /\ embeddings = <<>>
    /\ vectors = <<>>
    /\ store = EmptyStore
    /\ ing_pc = "idle"
    /\ ing_error = "none"
    /\ reported = <<>>
    /\ fault = NoFault
    /\ run_start = EmptyStore
    /\ previous = NoRun
    /\ ing_calls = <<>>
    /\ index_exists = FALSE
    /\ entry = "none"


\* split_text_into_chunks, called once on any text with any parameters.
Init == ChunkerInit /\ SepIdle /\ ChatIdle /\ IngestIdle

Next == ChunkIterate \/ ChunkReturn

Spec == Init /\ [][Next]_vars

\* split_text_by_separator, called once on any text.
SeparatorInit == SepInit /\ ChunkerIdle /\ ChatIdle /\ IngestIdle

SeparatorNext == SepPart \/ SepReturn

SpecSeparator == SeparatorInit /\ [][SeparatorNext]_vars

\* One POST /api/chat request, answered by the Flask application and by the
\* FastAPI application against the same services.
ChatSpecInit == ChatInit /\ ChunkerIdle /\ SepIdle /\ IngestIdle

ChatNext == FlaskChat \/ FastapiChat

SpecChat == ChatSpecInit /\ [][ChatNext]_vars

\* A document is ingested before any index was created, by main or by a call
\* of ingest_text, and then the same or another document once more (by main
\* with or without --reset).
IngestSpecInit == IngestInit /\ ChunkerIdle /\ SepIdle /\ ChatIdle

IngestNext ==
    \/ IngestMain
    \/ IngestReadFile
    \/ IngestSplit
    \/ IngestInitPinecone
    \/ IngestPineconeIndex
    \/ IngestEmbed
    \/ IngestUpsert
    \/ IngestReturn
    \/ IngestAgain

SpecIngest == IngestSpecInit /\ [][IngestNext]_vars


\* The step-by-step loop and the function agree on every call that ends.
ChunkerAgrees ==
    (pc = "done" /\ Len(chunks) < MaxIterations)
        => chunks = split_text_into_chunks(text, max_tokens_per_chunk, overlap_tokens)

\* ------------------------------------------------------- claims C1, C2, C3
\* ceil(a / b) for b > 0, also for a negative a.
CeilDiv(a, b) == -((-a) \div b)

ValidParameters == overlap_tokens < max_tokens_per_chunk

\* The windows of the 1900-token document of the spec's example.
Windows1900 == WindowsFrom(1900, 500, 50, 0)

\* The number of chunks of a call with valid parameters on N tokens.
ExpectedChunks(n, m, o) ==
    IF n = 0 THEN 0 ELSE Max(1, CeilDiv(n - o, m - o))

\* C1 as stated: with overlap_tokens < max_tokens_per_chunk the call returns
\* exactly ceil((N - overlap_tokens) / (max_tokens_per_chunk - overlap_tokens))
\* chunks for every N, and the empty list for N = 0.
C1_CountIsCeilFormula ==
    (pc = "done" /\ ValidParameters) =>
        /\ Len(tokens) = 0 => chunks = <<>>
        /\ Len(tokens) > 0 =>
              Len(chunks) = CeilDiv(Len(tokens) - overlap_tokens,
                                    max_tokens_per_chunk - overlap_tokens)

\* C1 amended: with overlap_tokens < max_tokens_per_chunk the call ends (it is
\* done or can take a step, and never makes more than N iterations); it
\* returns no chunk for N = 0 and max(1, ceil((N - overlap_tokens) /
\* (max_tokens_per_chunk - overlap_tokens))) chunks for N > 0, which is the
\* ceil formula whenever N > overlap_tokens; 1900 tokens with 500 and 50 give
\* 5 chunks.
C1_ChunkCount ==
    ValidParameters =>
        /\ pc = "done" \/ ENABLED Next
        /\ Len(chunks) <= Len(tokens)
        /\ pc = "done" =>
              /\ Len(chunks) = ExpectedChunks(Len(tokens), max_tokens_per_chunk,
                                              overlap_tokens)
              /\ Len(tokens) > overlap_tokens =>
                    Len(chunks) = CeilDiv(Len(tokens) - overlap_tokens,
                                          max_tokens_per_chunk - overlap_tokens)
              /\ Len(tokens) = 0 => chunks = <<>>
        /\ Len(Windows1900) = 5

\* A call with an overlap that returned at least three chunks.
C1_Witness ==
    /\ pc = "done"
    /\ ValidParameters
    /\ overlap_tokens >= 1
    /\ Len(chunks) >= 3
    /\ Len(chunks) = CeilDiv(Len(tokens) - overlap_tokens,
                             max_tokens_per_chunk - overlap_tokens)

\* C2: with overlap_tokens >= max_tokens_per_chunk the call does not loop
\* forever: an iteration that goes round the loop again has moved the cursor
\* forward.  (The loop's control depends on the cursor alone, so an iteration
\* that leaves the cursor where it was, or moves it back, repeats for ever.)
C2_LoopAdvances ==
    [][(overlap_tokens >= max_tokens_per_chunk /\ pc = "loop" /\ pc' = "loop")
          => current_pos' > current_pos]_vars

\* The positions of the tokens a window holds.
Positions(w) == {k \in 0..(Len(tokens) - 1) : w.start <= k /\ k < w.end}

\* Chunk 0 followed by every later chunk without its first o tokens.
RECURSIVE Reassemble(_, _)
Reassemble(ws, o) ==
    IF Len(ws) = 0 THEN <<>>
    ELSE IF Len(ws) = 1 THEN ws[1].toks
    ELSE Reassemble(SubSeq(ws, 1, Len(ws) - 1), o)
            \o Slice(ws[Len(ws)].toks, o, Len(ws[Len(ws)].toks))

\* C3: with 0 <= overlap_tokens < max_tokens_per_chunk the chunks rebuild the
\* input: chunk 0 followed by every later chunk without its first
\* overlap_tokens tokens is the token sequence (and decodes to the text), each
\* chunk is the decoded window, consecutive chunks share exactly
\* overlap_tokens tokens, and with no overlap the chunks are disjoint and
\* tile the input.
C3_Reconstruction ==
    (pc = "done" /\ ValidParameters) =>
        /\ Reassemble(windows, overlap_tokens) = tokens
        /\ Decode(Reassemble(windows, overlap_tokens)) = text
        /\ Len(chunks) = Len(windows)
        /\ \A k \in 1..Len(windows) : chunks[k] = Decode(windows[k].toks)
        /\ \A k \in 1..(Len(windows) - 1) :
              /\ Cardinality(Positions(windows[k]) \cap Positions(windows[k + 1]))
                    = overlap_tokens
              /\ Slice(windows[k].toks, Len(windows[k].toks) - overlap_tokens,
                       Len(windows[k].toks))
                    = Slice(windows[k + 1].toks, 0, overlap_tokens)
        /\ overlap_tokens = 0 =>
              /\ \A j, k \in 1..Len(windows) :
                    j # k => Positions(windows[j]) \cap Positions(windows[k]) = {}
              /\ UNION {Positions(windows[k]) : k \in 1..Len(windows)}
                    = 0..(Len(tokens) - 1)

\* A call that cut at least three overlapping windows.
C3_Witness ==
    /\ pc = "done"
    /\ ValidParameters
    /\ overlap_tokens >= 1
    /\ Len(windows) >= 3
    /\ Reassemble(windows, overlap_tokens) = tokens

\* ---------------------------------------------------------------- claim C7
\* The trimmed non-empty parts of a text.
TrimmedParts(t, sep) ==
    LET ps == Split(t, sep)
    IN  SelectSeq([k \in 1..Len(ps) |-> Strip(ps[k])], LAMBDA q : q # <<>>)

\* The greedy packing of section 4.3 under a token budget: a part joins the
\* accumulator cur, after the separator, unless that would exceed the budget;
\* then cur is emitted and the part starts a new one; the last non-empty
\* accumulator is emitted at the end.
RECURSIVE GreedyPack(_, _, _, _)
GreedyPack(ps, sep, budget, cur) ==
    IF Len(ps) = 0 THEN (IF cur # <<>> THEN <<cur>> ELSE <<>>)
    ELSE IF cur # <<>> /\ count_tokens(cur \o sep \o ps[1]) > budget
         THEN <<cur>> \o GreedyPack(Tail(ps), sep, budget, ps[1])
    ELSE GreedyPack(Tail(ps), sep, budget,
                    (IF cur # <<>> THEN cur \o sep ELSE cur) \o ps[1])

\* C7: split_text_by_separator returns, without raising, the greedy packing
\* of the trimmed non-empty parts under a token budget.
C7_GreedyPacking ==
    sep_pc \in {"returned", "raised"} =>
        /\ sep_pc = "returned"
        /\ \E budget \in 1..MaxSepTextLen :
              sep_chunks = GreedyPack(TrimmedParts(sep_text, separator),
                                      separator, budget, <<>>)

\* ------------------------------------------------- claims C4, C5, C6, C10
Called(h, name) == \E k \in 1..Len(h.calls) : h.calls[k] = name

\* The body carries a non-empty question.
HasQuestion ==
    body.kind = "json" /\ "question" \in DOMAIN body.json /\ body.json["question"] # ""

\* C4: in both handlers, when the retrieval returns zero documents the
\* response is the fixed answer with an empty retrieved_context, and
\* get_chat_completion is not called in that request.
C4_NoDocumentsFallback ==
    \A h \in {flask, fastapi} :
        (h.done /\ Called(h, "get_similar_documents") /\ Len(h.similar_docs) = 0)
            => /\ h.resp = AnswerResponse(
                     "I couldn't find any relevant information to answer your question.",
                     <<>>)
               /\ ~Called(h, "get_chat_completion")

\* Both handlers answered a request whose query matched nothing in a
\* reachable index.
C4_Witness ==
    /\ flask.done /\ fastapi.done
    /\ services.index_ok /\ services.query_ok /\ services.matches = <<>>
    /\ Called(flask, "get_similar_documents")
    /\ Called(fastapi, "get_similar_documents")
    /\ flask.resp.status = 200 /\ flask.resp.retrieved_context = <<>>
    /\ fastapi.resp.status = 200 /\ fastapi.resp.retrieved_context = <<>>

\* C5: a body without a question, with an empty question, or no body, gets a
\* 400 response with an error field, and no embedding, retrieval or generation
\* call is made.
C5_InvalidBodyIs400 ==
    \A h \in {flask, fastapi} :
        (h.done /\ ~HasQuestion)
            => /\ h.resp.status = 400
               /\ "error" \in DOMAIN h.resp
               /\ h.calls = <<>>

\* C6: when the index cannot be reached or its query raises during a request
\* that carries a question and gets to the retrieval, the response is a 500,
\* never a 200.
C6_StoreFailureIs500 ==
    \A h \in {flask, fastapi} :
        (h.done /\ HasQuestion /\ Called(h, "get_similar_documents")
              /\ (~services.index_ok \/ ~services.query_ok))
            => h.resp.status = 500

\* C10: for the same question, embedding, retrieved documents and generation
\* result the two handlers give the same outcome: the same status class and,
\* for an answer, the same answer and retrieved_context.
C10_HandlersAgree ==
    (flask.done /\ fastapi.done /\ HasQuestion)
        => /\ flask.resp.status \div 100 = fastapi.resp.status \div 100
           /\ flask.resp.status = 200 =>
                 /\ flask.resp.answer = fastapi.resp.answer
                 /\ flask.resp.retrieved_context = fastapi.resp.retrieved_context

\* ------------------------------------------------------- claims C8, C9
\* The record ingest_text writes for chunk k (from 0) of the run's chunks.
ChunkRecord(k) ==
    [values |-> Embed(ing_chunks[k + 1]),
     metadata |-> [text |-> ing_chunks[k + 1], chunk_id |-> k]]

\* C8: when the embedding call or the upsert of the batch starting at chunk
\* fault.at fails, the run is over with that error logged; every chunk of the
\* earlier batches is in the index under its id (nothing is rolled back), the
\* ids of the failing batch and of the later ones hold what they held when
\* the run began, and no count is reported.
C8_FailureAborts ==
    fault.call \in {"get_embeddings", "upsert"} =>
        /\ ing_pc = "failed"
        /\ ing_error = (IF fault.call = "get_embeddings" THEN "EmbeddingError"
                                                         ELSE "UpsertError")
        /\ reported = <<>>
        /\ \A k \in 0..(Len(ing_chunks) - 1) :
              IF k < fault.at
              THEN /\ VectorId(k) \in DOMAIN store
                   /\ store[VectorId(k)] = ChunkRecord(k)
              ELSE /\ VectorId(k) \in DOMAIN store <=> VectorId(k) \in DOMAIN run_start
                   /\ VectorId(k) \in DOMAIN store
                         => store[VectorId(k)] = run_start[VectorId(k)]
        /\ DOMAIN store
              = DOMAIN run_start \cup {VectorId(k) : k \in 0..(fault.at - 1)}

\* In a direct call of ingest_text, the upsert of a later batch failed after
\* an earlier batch was stored, with chunks still to come.
C8_Witness ==
    /\ entry = "ingest_text"
    /\ fault.call = "upsert"
    /\ fault.at >= 1
    /\ ing_pc = "failed"
    /\ fault.at + args.batch_size < Len(ing_chunks)
    /\ VectorId(0) \in DOMAIN store
    /\ VectorId(fault.at) \notin DOMAIN store

\* C9: a run of ingest_text that follows a run without failure on the same
\* text with the same chunk_size, overlap and batch_size, and itself ends
\* without failure, leaves the index as the first run left it.
C9_RerunIdempotent ==
    (previous.ran /\ previous.ok /\ ing_pc = "done" /\ previous.args = args)
        => store = previous.store

\* A document of several chunks was ingested twice by direct calls of
\* ingest_text, in more than one batch.
C9_Witness ==
    /\ entry = "ingest_text"
    /\ previous.ran /\ previous.ok /\ ing_pc = "done"
    /\ previous.args = args
    /\ Len(ing_chunks) >= 3
    /\ args.batch_size < Len(ing_chunks)
    /\ Cardinality(DOMAIN store) = Len(ing_chunks)

\* ------------------------------------------------------------- claim C11
\* The places of the upsert calls in the run's calls.
UpsertCalls == {c \in 1..Len(ing_calls) : ing_calls[c].call = "upsert"}

\* The writes of the run: vector j of the upsert call at place c.
Writes ==
    UNION {{<<c, j>> : j \in 1..Len(ing_calls[c].arg)} : c \in UpsertCalls}

\* The writes made under an id.
WritesOf(id) == {w \in Writes : ing_calls[w[1]].arg[w[2]].id = id}

\* C11: a run of ingest_text that ended without failure over n chunks with
\* batch size b made ceil(n/b) embedding calls and ceil(n/b) upserts, batch
\* after batch in increasing order, each batch's embedding call on the batch's
\* chunks and right before its upsert; over all upserts every chunk k of
\* 0..n-1 was written exactly once, under the id chunk_<k> with its embedding,
\* metadata text = chunk k and chunk_id = k, nothing else was written, and
\* the count returned is n (no call at all and a count of 0 when n = 0).
C11_CallsPerBatch ==
    ing_pc = "done" =>
        LET n == Len(ing_chunks)
            b == args.batch_size
            nb == CeilDiv(n, b)
        IN  /\ Len(ing_calls) = 2 * nb
            /\ \A k \in 1..nb :
                  LET at == (k - 1) * b
                      emb == ing_calls[2 * k - 1]
                      ups == ing_calls[2 * k]
                  IN  /\ emb.call = "get_embeddings"
                      /\ emb.at = at
                      /\ emb.ok
                      /\ emb.arg = Slice(ing_chunks, at, at + b)
                      /\ ups.call = "upsert"
                      /\ ups.at = at
                      /\ ups.ok
                      /\ Len(ups.arg) = Len(emb.arg)
            /\ Cardinality(UpsertCalls) = nb
            /\ \A k \in 0..(n - 1) :
                  /\ Cardinality(WritesOf(VectorId(k))) = 1
                  /\ \A w \in WritesOf(VectorId(k)) :
                        LET v == ing_calls[w[1]].arg[w[2]]
                        IN  /\ v.values = Embed(ing_chunks[k + 1])
                            /\ v.metadata.text = ing_chunks[k + 1]
                            /\ v.metadata.chunk_id = k
            /\ Cardinality(Writes) = n
            /\ reported = <<n>>
            /\ n = 0 => (ing_calls = <<>> /\ reported = <<0>>)

\* A direct call of ingest_text ingested three chunks in batches of two: two
\* embedding calls and two upserts, the last batch short of a chunk.
C11_Witness ==
    /\ entry = "ingest_text"
    /\ ing_pc = "done"
    /\ Len(ing_chunks) = 3
    /\ args.batch_size = 2
    /\ Len(ing_calls) = 4
    /\ ing_calls[4].call = "upsert"
    /\ Len(ing_calls[4].arg) = 1
    /\ reported = <<3>>

\* A document without chunks was ingested: no call, and a count of 0.
C11_EmptyDocument ==
    /\ ing_pc = "done"
    /\ Len(ing_chunks) = 0
    /\ ing_calls = <<>>
    /\ reported = <<0>>


====
